---- MODULE Spec2Model ----
\* Model of thingspeak_dashboard.py: one run of main() renders the page the
\* sidebar menu selects; the Home and Analytics pages call fetch_data(), which
\* retrieves the channel feed, normalizes it into a table and sorts it.
EXTENDS Integers, Sequences, FiniteSets, TLC

VARIABLES selected, pc, response, requests, df, caught, escaped, shown

vars == <<selected, pc, response, requests, df, caught, escaped, shown>>

\* Largest number of records in a feed the model enumerates.
MaxRecords == 2

\* ---------------------------------------------------------------- values

\* An optional value: <<>> is pandas' NaN / NaT, <<v>> a present value v.
Absent == <<>>

Present(o) == o # Absent

Val(o) == o[1]

\* TZ_OFFSET = timedelta(hours=-3), in hours.
TZ_OFFSET == -3

\* Raw created_at strings, as <<year, month, day, hour>> for
\* "YYYY-MM-DDThh:00:00Z"; <<>> is the empty string; NotADate is
\* "2024-13-01T00:00:00Z", which names no date at all.
EmptyString == <<>>

NotADate == <<2024, 13, 1, 0>>

RawTimes ==
    { <<2024, 1, 1, 0>>, <<2024, 1, 1, 1>>, <<2024, 3, 1, 2>>,
      EmptyString, NotADate }

\* Raw field strings, character by character.
NotANumber == <<"n", "o", "t", "-", "a", "-", "n", "u", "m", "b", "e", "r">>

RawField1 == { <<"2", "0", ".", "0">>, <<"2", "2", ".", "0">>, NotANumber }

RawField2 == { <<"5", "0">>, NotANumber }

RawRecords ==
    [created_at : RawTimes, field1 : RawField1, field2 : RawField2]

\* The record lists of a payload: every sequence of at most MaxRecords records.
Feeds == UNION { [1..n -> RawRecords] : n \in 0..MaxRecords }

\* What requests.get / raise_for_status / response.json() / data['feeds'] meet.
FailureKinds == {"ConnectionError", "HTTPError", "JSONDecodeError", "NoFeedsKey"}

Responses ==
    [kind : FailureKinds, feeds : {<<>>}] \cup [kind : {"Feeds"}, feeds : Feeds]

\* ------------------------------------------------- pd.to_datetime, strftime

\* Days from 1970-01-01 to the civil date y-m-d (proleptic Gregorian).
DaysFromCivil(y, m, d) ==
    LET yy  == IF m <= 2 THEN y - 1 ELSE y
        era == yy \div 400
        yoe == yy - era * 400
        mp  == IF m > 2 THEN m - 3 ELSE m + 9
        doy == (153 * mp + 2) \div 5 + d - 1
        doe == yoe * 365 + yoe \div 4 - yoe \div 100 + doy
    IN  era * 146097 + doe - 719468

\* The civil date <<y, m, d>> of a day count: the inverse of DaysFromCivil.
CivilFromDays(z) ==
    LET zz  == z + 719468
        era == zz \div 146097
        doe == zz - era * 146097
        yoe == (doe - doe \div 1460 + doe \div 36524 - doe \div 146096) \div 365
        doy == doe - (365 * yoe + yoe \div 4 - yoe \div 100)
        mp  == (5 * doy + 2) \div 153
        d   == doy - (153 * mp + 2) \div 5 + 1
        m   == IF mp < 10 THEN mp + 3 ELSE mp - 9
        y   == yoe + era * 400
    IN  <<IF m <= 2 THEN y + 1 ELSE y, m, d>>

IsLeap(y) == (y % 4 = 0 /\ y % 100 # 0) \/ y % 400 = 0

DaysInMonth(y, m) ==
    IF m = 2 THEN (IF IsLeap(y) THEN 29 ELSE 28)
    ELSE IF m \in {4, 6, 9, 11} THEN 30 ELSE 31

\* Whether pd.to_datetime can read the string: the empty string is read (as
\* NaT); a string naming no calendar date makes it raise.
Parsable(raw) ==
    \/ raw = EmptyString
    \/ /\ Len(raw) = 4
       /\ raw[2] \in 1..12
       /\ raw[3] \in 1..DaysInMonth(raw[1], raw[2])
       /\ raw[4] \in 0..23

\* pd.to_datetime(..., utc=True) of one parsable string: the instant in hours
\* since the epoch, or NaT for the empty string.
ToDatetime(raw) ==
    IF raw = EmptyString THEN Absent
    ELSE <<DaysFromCivil(raw[1], raw[2], raw[3]) * 24 + raw[4]>>

\* A sign slip in the shift: the offset subtracted instead of added.
AddOffsetSignSlip(t) == IF Present(t) THEN <<Val(t) - TZ_OFFSET>> ELSE Absent

\* created_at + TZ_OFFSET; NaT plus anything is NaT.
AddOffset(t) == IF Present(t) THEN <<Val(t) + TZ_OFFSET>> ELSE Absent

\* strftime('%Y-%m-%d %H:%M:%S') of a present timestamp, as <<y, m, d, h>>.
Strftime(t) ==
    LET days == Val(t) \div 24
    IN  CivilFromDays(days) \o <<Val(t) - days * 24>>

\* ------------------------------------------------------------ pd.to_numeric

DigitChars == <<"0", "1", "2", "3", "4", "5", "6", "7", "8", "9">>

IsDigit(c) == \E i \in DOMAIN DigitChars : DigitChars[i] = c

DigitVal(c) == (CHOOSE i \in DOMAIN DigitChars : DigitChars[i] = c) - 1

\* The value of a digit string (0 for the empty one).
RECURSIVE DigitsVal(_)
DigitsVal(ds) ==
    IF ds = <<>> THEN 0
    ELSE DigitsVal(SubSeq(ds, 1, Len(ds) - 1)) * 10 + DigitVal(ds[Len(ds)])

\* The string without its sign.
Unsigned(s) == IF s # <<>> /\ s[1] = "-" THEN Tail(s) ELSE s

\* Whether the string is a decimal number: an optional sign, digits, at most
\* one point, at least one digit.
IsNumeric(s) ==
    LET u == Unsigned(s)
    IN  /\ \A i \in DOMAIN u : IsDigit(u[i]) \/ u[i] = "."
        /\ Cardinality({i \in DOMAIN u : u[i] = "."}) <= 1
        /\ \E i \in DOMAIN u : IsDigit(u[i])

\* The number a decimal string denotes, in tenths (the model keeps one
\* fractional digit; the raw strings above have no more).
Tenths(s) ==
    LET u    == Unsigned(s)
        dots == {i \in DOMAIN u : u[i] = "."}
        dot  == IF dots = {} THEN Len(u) + 1 ELSE CHOOSE i \in dots : TRUE
        ip   == SubSeq(u, 1, dot - 1)
        frac == SubSeq(u, dot + 1, Len(u))
        mag  == DigitsVal(ip) * 10 + (IF frac = <<>> THEN 0 ELSE DigitVal(frac[1]))
    IN  IF u # s THEN 0 - mag ELSE mag

\* Coercion that fills a failed value with 0 instead of leaving it absent.
ToNumericFillZero(s) == IF IsNumeric(s) THEN <<Tenths(s)>> ELSE <<0>>

\* pd.to_numeric(..., errors='coerce') of one value: NaN when it is no number.
ToNumeric(s) == IF IsNumeric(s) THEN <<Tenths(s)>> ELSE Absent

\* ------------------------------------------------------------- fetch_data

\* The columns of pd.DataFrame(feeds): every key some record has.
Columns(feeds) == UNION { DOMAIN feeds[i] : i \in DOMAIN feeds }

\* The exception classes the three handlers of fetch_data name; every class
\* raised in the try block is an Exception.
RequestExceptions == {"ConnectionError", "HTTPError", "JSONDecodeError"}

Exceptions == RequestExceptions \cup {"KeyError", "ValueError", "IndexError"}

\* fetch_data with only its first handler: nothing but a RequestException
\* is taken.
CaughtRequestOnly(exc) == exc \in RequestExceptions

\* Whether one of the except clauses of fetch_data takes the exception:
\* RequestException, KeyError, and last Exception, which takes every class.
Caught(exc) ==
    \/ exc \in RequestExceptions
    \/ exc = "KeyError"
    \/ exc \in Exceptions

\* The exception the try block raises on a response, "none" when it runs to
\* its return: the request, the status check and the JSON decoding fail by
\* their kind; data['feeds'] and df['created_at'] raise KeyError on a missing
\* key (a DataFrame of no records has no columns); pd.to_datetime raises on a
\* string that is no date.
Raised(resp) ==
    IF resp.kind \in RequestExceptions THEN resp.kind
    ELSE IF resp.kind = "NoFeedsKey" THEN "KeyError"
    ELSE IF "created_at" \notin Columns(resp.feeds) THEN "KeyError"
    ELSE IF \E i \in DOMAIN resp.feeds : ~Parsable(resp.feeds[i].created_at)
         THEN "ValueError"
    ELSE IF {"field1", "field2"} \ Columns(resp.feeds) # {} THEN "KeyError"
    ELSE "none"

\* The table before sorting: row i-1 (label index = i-1) is record i with its
\* timestamp read and shifted and its two fields coerced.
Table(feeds) ==
    [i \in DOMAIN feeds |->
        [index      |-> i - 1,
         created_at |-> AddOffset(ToDatetime(feeds[i].created_at)),
         field1     |-> ToNumeric(feeds[i].field1),
         field2     |-> ToNumeric(feeds[i].field2)]]

\* rows[i] may stand before rows[j] in the sorted table: NaT sorts last.
KeyLeq(a, b) ==
    \/ ~Present(b.created_at)
    \/ Present(a.created_at) /\ Val(a.created_at) <= Val(b.created_at)

\* fetch_data without its sort: the table in the order delivered.
SortValuesOmitted(rows) == {rows}

\* df.sort_values('created_at'): the default kind is quicksort, which pandas
\* documents as not stable, so every ascending arrangement of the rows is a
\* possible result; the rows with NaT are appended in their original order.
SortValues(rows) ==
    LET n     == Len(rows)
        perms == {p \in [1..n -> 1..n] : \A i, j \in 1..n : i # j => p[i] # p[j]}
        ok(p) == \A i, j \in 1..n : i < j =>
                    /\ KeyLeq(rows[p[i]], rows[p[j]])
                    /\ (~Present(rows[p[i]].created_at)
                        /\ ~Present(rows[p[j]].created_at)) => p[i] < p[j]
    IN  { [i \in 1..n |-> rows[p[i]]] : p \in {q \in perms : ok(q)} }

\* pd.DataFrame(): the empty table the handlers return.
EmptyDataFrame == <<>>

\* A request that is made a second time when the first one fails.
HttpGetRetry(n, resp) == IF resp.kind \in RequestExceptions THEN n + 2 ELSE n + 1

\* requests.get(url): one outbound request, made once.
HttpGet(n, resp) == n + 1

NoException == [type |-> "none", line |-> 0]

\* ---------------------------------------------------------------- the views

\* A test that never finds the table empty (as "df is not None" would).
IsEmptyNever(rows) == FALSE

\* df.empty
IsEmpty(rows) == Len(rows) = 0

\* a - b on floats: NaN when either is NaN.
Sub(a, b) == IF Present(a) /\ Present(b) THEN <<Val(a) - Val(b)>> ELSE Absent

\* The present values of column field1.
Field1Values(rows) ==
    { Val(rows[i].field1) : i \in {k \in DOMAIN rows : Present(rows[k].field1)} }

\* df['field1'].max() / .min(): NaN is skipped; NaN when nothing is present.
ColMax(rows) ==
    IF Field1Values(rows) = {} THEN Absent
    ELSE <<CHOOSE v \in Field1Values(rows) : \A w \in Field1Values(rows) : w <= v>>

ColMin(rows) ==
    IF Field1Values(rows) = {} THEN Absent
    ELSE <<CHOOSE v \in Field1Values(rows) : \A w \in Field1Values(rows) : v <= w>>

\* The label of the first row, in the table's order, whose field1 is v.
FirstLabel(rows, v) ==
    LET at == {i \in DOMAIN rows : rows[i].field1 = v}
        p  == CHOOSE i \in at : \A k \in at : i <= k
    IN  rows[p].index

\* The position of the first maximum taken for its label.
IdxMaxPositional(rows) ==
    LET at == {i \in DOMAIN rows : rows[i].field1 = ColMax(rows)}
    IN  (CHOOSE i \in at : \A k \in at : i <= k) - 1

\* df['field1'].idxmax() / .idxmin(), for a column with a present value.
IdxMax(rows) == FirstLabel(rows, ColMax(rows))

IdxMin(rows) == FirstLabel(rows, ColMin(rows))

\* df.loc[label, 'created_at']: the labels of the table are unique.
Loc(rows, label) ==
    (CHOOSE r \in {rows[i] : i \in DOMAIN rows} : r.index = label).created_at

\* (last - first).days: whole days, rounded down.
Days(first, last) == (Val(last) - Val(first)) \div 24

\* What a page has put on the screen. widgets: the elements rendered so far.
Blank ==
    [widgets |-> {}, current_temp |-> Absent, delta_temp |-> Absent,
     current_humidity |-> Absent, delta_humidity |-> Absent,
     first |-> <<>>, last |-> <<>>, days |-> Absent,
     max_temp |-> Absent, min_temp |-> Absent,
     max_temp_time |-> <<>>, min_temp_time |-> <<>>]

\* The Home page over the table fetch_data returned: the widgets it renders
\* and the exception that ends it, if any. A statement that raises renders
\* nothing; what was rendered before it stays on the screen. idxerr is the
\* class raised at line 182 for a column without any present value (idxmax
\* raises ValueError itself, or returns NaN and df.loc raises KeyError,
\* by the pandas version).
HomePage(rows, idxerr) ==
    LET n  == Len(rows)
        s1 == [Blank EXCEPT
                 !.widgets = {"temp_metric", "temp_plot"},
                 !.current_temp = rows[n].field1,
                 !.delta_temp = Sub(rows[n].field1, rows[n - 1].field1)]
        s2 == [s1 EXCEPT
                 !.widgets = @ \cup {"humidity_metric", "humidity_plot"},
                 !.current_humidity = rows[n].field2,
                 !.delta_humidity = Sub(rows[n].field2, rows[n - 1].field2)]
        s3 == [s2 EXCEPT !.widgets = @ \cup {"first_record"},
                         !.first = Strftime(rows[1].created_at)]
        s4 == [s3 EXCEPT !.widgets = @ \cup {"last_record"},
                         !.last = Strftime(rows[n].created_at)]
        s5 == [s4 EXCEPT !.widgets = @ \cup {"interval"},
                         !.days = <<Days(rows[1].created_at, rows[n].created_at)>>]
        s6 == [s5 EXCEPT !.widgets = @ \cup {"maximum"},
                         !.max_temp = ColMax(rows),
                         !.max_temp_time = Strftime(Loc(rows, IdxMax(rows)))]
        s7 == [s6 EXCEPT !.widgets = @ \cup {"minimum"},
                         !.min_temp = ColMin(rows),
                         !.min_temp_time = Strftime(Loc(rows, IdxMin(rows)))]
        Raise(s, type, line) ==
            [shown |-> s, escaped |-> [type |-> type, line |-> line]]
    IN  IF IsEmpty(rows)
            THEN [shown   |-> [Blank EXCEPT !.widgets = {"no_data"}],
                  escaped |-> NoException]
        ELSE IF n < 2 THEN Raise(Blank, "IndexError", 157)
        ELSE IF ~Present(rows[1].created_at) THEN Raise(s2, "ValueError", 173)
        ELSE IF ~Present(rows[n].created_at) THEN Raise(s3, "ValueError", 174)
        ELSE IF Field1Values(rows) = {} THEN Raise(s5, idxerr, 182)
        ELSE IF ~Present(Loc(rows, IdxMax(rows))) THEN Raise(s5, "ValueError", 184)
        ELSE IF ~Present(Loc(rows, IdxMin(rows))) THEN Raise(s6, "ValueError", 185)
        ELSE [shown |-> s7, escaped |-> NoException]

\* The Analytics page: three charts of the table, or the no-data message.
AnalyticsPage(rows) ==
    IF IsEmpty(rows) THEN [Blank EXCEPT !.widgets = {"no_data"}]
    ELSE [Blank EXCEPT !.widgets = {"histogram", "heatmap", "scatter"}]

\* ------------------------------------------------------------------ actions

NoResponse == [kind |-> "NoRequest", feeds |-> <<>>]

Init ==
    /\ selected = "Home"
    /\ pc = "menu"
    /\ response = NoResponse
    /\ requests = 0
    /\ df = EmptyDataFrame
    /\ caught = "none"
    /\ escaped = NoException
    /\ shown = Blank

\* main() with "Home" selected in the menu, up to its call of fetch_data.
Home ==
    /\ pc = "menu"
    /\ selected' = "Home"
    /\ pc' = "fetch"
    /\ UNCHANGED <<response, requests, df, caught, escaped, shown>>

\* main() with "Analytics" selected, up to its call of fetch_data.
Analytics ==
    /\ pc = "menu"
    /\ selected' = "Analytics"
    /\ pc' = "fetch"
    /\ UNCHANGED <<response, requests, df, caught, escaped, shown>>

\* fetch_data(), whole: the request, the normalization, the sort and the
\* handlers. The server's answer and the arrangement of equal timestamps
\* are the inputs.
FetchData ==
    /\ pc = "fetch"
    /\ \E resp \in Responses :
         /\ response' = resp
         /\ requests' = HttpGet(requests, resp)
         /\ IF Raised(resp) = "none"
                THEN /\ \E sorted \in SortValues(Table(resp.feeds)) : df' = sorted
                     /\ caught' = "none"
                     /\ pc' = "view"
                     /\ UNCHANGED escaped
            ELSE IF Caught(Raised(resp))
                THEN /\ df' = EmptyDataFrame
                     /\ caught' = Raised(resp)
                     /\ pc' = "view"
                     /\ UNCHANGED escaped
            ELSE /\ escaped' = [type |-> Raised(resp), line |-> 26]
                 /\ pc' = "done"
                 /\ UNCHANGED <<df, caught>>
    /\ UNCHANGED <<selected, shown>>

\* The rest of the Home branch of main(), after fetch_data returned.
HomeView ==
    /\ pc = "view"
    /\ selected = "Home"
    /\ \E idxerr \in {"KeyError", "ValueError"} :
         /\ shown' = HomePage(df, idxerr).shown
         /\ escaped' = HomePage(df, idxerr).escaped
    /\ pc' = "done"
    /\ UNCHANGED <<selected, response, requests, df, caught>>

\* The rest of the Analytics branch of main().
AnalyticsView ==
    /\ pc = "view"
    /\ selected = "Analytics"
    /\ shown' = AnalyticsPage(df)
    /\ pc' = "done"
    /\ UNCHANGED <<selected, response, requests, df, caught, escaped>>

\* main() with "Setup" selected: the hardware picture.
Setup ==
    /\ pc = "menu"
    /\ selected' = "Setup"
    /\ shown' = [Blank EXCEPT !.widgets = {"setup_image"}]
    /\ pc' = "done"
    /\ UNCHANGED <<response, requests, df, caught, escaped>>

\* main() with "Code" selected: the link, and the sample when the button is
\* pressed.
Code ==
    /\ pc = "menu"
    /\ selected' = "Code"
    /\ \E button \in BOOLEAN :
         shown' = [Blank EXCEPT !.widgets =
                     IF button THEN {"link", "sample_code"} ELSE {"link"}]
    /\ pc' = "done"
    /\ UNCHANGED <<response, requests, df, caught, escaped>>

\* main() with "Contact" selected: the form.
Contact ==
    /\ pc = "menu"
    /\ selected' = "Contact"
    /\ shown' = [Blank EXCEPT !.widgets = {"contact_form"}]
    /\ pc' = "done"
    /\ UNCHANGED <<response, requests, df, caught, escaped>>

\* The script runs again from the top: nothing of the last run is kept but
\* the menu's selection.
Rerun ==
    /\ pc = "done"
    /\ pc' = "menu"
    /\ response' = NoResponse
    /\ requests' = 0
    /\ df' = EmptyDataFrame
    /\ caught' = "none"
    /\ escaped' = NoException
    /\ shown' = Blank
    /\ UNCHANGED selected

Next ==
    \/ Home
    \/ Analytics
    \/ FetchData
    \/ HomeView
    \/ AnalyticsView
    \/ Setup
    \/ Code
    \/ Contact
    \/ Rerun

Spec == Init /\ [][Next]_vars

\* ------------------------------------------------------------------- claims

\* fetch_data has returned (the page may have been rendered since).
Returned == pc \in {"view", "done"} /\ escaped.line # 26

\* fetch_data has returned a non-empty table.
Succeeded == Returned /\ df # EmptyDataFrame

\* The raw record a row of the table was made from.
RawOf(r) == response.feeds[r.index + 1]

\* C1: whenever fetch_data returns a non-empty table, its rows are in
\* non-decreasing order of created_at, whatever order the server delivered
\* them in (rows without a timestamp, NaT, stand after all the others).
C1_SortedByTimestamp ==
    Succeeded =>
        \A i, j \in DOMAIN df : i < j =>
            \/ df[j].created_at = <<>>
            \/ /\ df[i].created_at # <<>>
               /\ df[i].created_at[1] <= df[j].created_at[1]

\* C1 happens: the server delivered two records latest first, and the table
\* holds them earliest first.
C1_Witness ==
    /\ Succeeded
    /\ Len(df) = 2
    /\ df[1].index = 1
    /\ df[2].index = 0
    /\ df[1].created_at # <<>>
    /\ df[2].created_at # <<>>
    /\ df[1].created_at[1] < df[2].created_at[1]

\* C2: when the fetch fails (connection failure, bad HTTP status, payload
\* that is not JSON, payload without 'feeds'), fetch_data returns the empty
\* table, no exception escapes, and the Home and Analytics pages render
\* their no-data message; a feed with a timestamp that cannot be read gives
\* the empty table too, never a part of the series.
C2_FailureGivesEmptyTable ==
    /\ (pc \in {"view", "done"} /\ response.kind \in FailureKinds) =>
          /\ df = <<>>
          /\ caught # "none"
          /\ escaped = NoException
          /\ (pc = "done" => shown.widgets = {"no_data"})
    /\ (pc \in {"view", "done"} /\ response.kind = "Feeds"
        /\ \E i \in DOMAIN response.feeds :
              response.feeds[i].created_at = NotADate) =>
          /\ df = <<>>
          /\ (pc = "done" => shown.widgets = {"no_data"})

\* C2 happens: a payload without 'feeds', and the Home page rendered.
C2_Witness ==
    /\ pc = "done"
    /\ selected = "Home"
    /\ response.kind = "NoFeedsKey"
    /\ caught = "KeyError"
    /\ shown.widgets = {"no_data"}

\* The number each raw field string of the model denotes, in tenths.
ExpectedNumber(s) ==
    CASE s = <<"2", "0", ".", "0">> -> <<200>>
      [] s = <<"2", "2", ".", "0">> -> <<220>>
      [] s = <<"5", "0">> -> <<500>>
      [] OTHER -> <<>>

\* C3: a field value that fails numeric coercion becomes absent in that
\* field of that record only: fetch_data does not fail for it, the record
\* stays in the table with its timestamp, and every other field of every
\* record holds the number its string denotes.
C3_CoercionFailureIsLocal ==
    (pc \in {"view", "done"} /\ response.kind = "Feeds" /\ response.feeds # <<>>
     /\ \A i \in DOMAIN response.feeds : response.feeds[i].created_at # NotADate) =>
        /\ caught = "none"
        /\ Len(df) = Len(response.feeds)
        /\ \A i \in DOMAIN response.feeds :
              \E k \in DOMAIN df :
                 /\ df[k].index = i - 1
                 /\ df[k].field1 = ExpectedNumber(response.feeds[i].field1)
                 /\ df[k].field2 = ExpectedNumber(response.feeds[i].field2)
                 /\ (df[k].created_at = <<>>) =
                       (response.feeds[i].created_at = EmptyString)

\* C3 happens: a record whose temperature is no number and whose humidity
\* is one, beside a record whose temperature is a number.
C3_Witness ==
    /\ Succeeded
    /\ Len(df) = 2
    /\ RawOf(df[1]).field1 = NotANumber
    /\ df[1].field1 = <<>>
    /\ df[1].field2 = <<500>>
    /\ df[1].created_at # <<>>
    /\ df[2].field1 = <<220>>

\* C4: a payload whose 'feeds' list is empty gives the empty table, and the
\* Home and Analytics pages render their no-data message; no exception
\* escapes.
C4_EmptyFeed ==
    (pc \in {"view", "done"} /\ response.kind = "Feeds" /\ response.feeds = <<>>) =>
        /\ df = <<>>
        /\ escaped = NoException
        /\ (pc = "done" => shown.widgets = {"no_data"})

\* C4 happens: the Analytics page rendered over an empty feed.
C4_Witness ==
    /\ pc = "done"
    /\ selected = "Analytics"
    /\ response.kind = "Feeds"
    /\ response.feeds = <<>>
    /\ shown.widgets = {"no_data"}

\* C5: on the Home page, current is the value of the last row and previous
\* that of the row before it; with fewer than two rows the page ends in a
\* handled no-data outcome, never in an exception that escapes it.
C5_PreviousOfShortSeries ==
    (pc = "done" /\ selected = "Home" /\ Succeeded) =>
        /\ "temp_metric" \in shown.widgets =>
              /\ shown.current_temp = df[Len(df)].field1
              /\ shown.delta_temp = Sub(df[Len(df)].field1, df[Len(df) - 1].field1)
        /\ Len(df) < 2 => escaped = NoException

\* C6: on the Home page, extremes of a temperature column without a single
\* present value (the table having two rows or more, all with timestamps)
\* end in a no-data outcome, not in an exception.
C6_ExtremesOfAbsentColumn ==
    (pc = "done" /\ selected = "Home" /\ Succeeded /\ Len(df) >= 2
     /\ (\A i \in DOMAIN df : df[i].created_at # <<>>)
     /\ (\A i \in DOMAIN df : df[i].field1 = <<>>)) =>
        escaped = NoException

\* The table has a row holding temperature v with no such row before it, and
\* that row's timestamp prints as stamp.
FirstHolderPrints(v, stamp) ==
    \E p \in DOMAIN df :
       /\ df[p].field1 = v
       /\ \A q \in 1..(p - 1) : df[q].field1 # v
       /\ df[p].created_at # <<>>
       /\ stamp = Strftime(df[p].created_at)

\* C7: the maximum (minimum) the Home page reports is the largest
\* (smallest) present temperature, and its timestamp is that of the first
\* row of the sorted table that holds it; the page reports both whenever the
\* table has two rows or more, all with timestamps, and a present temperature.
C7_ExtremesAndFirstOccurrence ==
    (pc = "done" /\ selected = "Home" /\ Succeeded) =>
        /\ "maximum" \in shown.widgets =>
              /\ shown.max_temp # <<>>
              /\ \A i \in DOMAIN df :
                    df[i].field1 # <<>> => df[i].field1[1] <= shown.max_temp[1]
              /\ FirstHolderPrints(shown.max_temp, shown.max_temp_time)
        /\ "minimum" \in shown.widgets =>
              /\ shown.min_temp # <<>>
              /\ \A i \in DOMAIN df :
                    df[i].field1 # <<>> => shown.min_temp[1] <= df[i].field1[1]
              /\ FirstHolderPrints(shown.min_temp, shown.min_temp_time)
        /\ (/\ Len(df) >= 2
            /\ \A i \in DOMAIN df : df[i].created_at # <<>>
            /\ \E i \in DOMAIN df : df[i].field1 # <<>>) =>
              {"maximum", "minimum"} \subseteq shown.widgets

\* C7 happens: two rows tie for the maximum, the sort has put the record
\* delivered second first, and the page reports that row's timestamp.
C7_Witness ==
    /\ pc = "done"
    /\ selected = "Home"
    /\ Len(df) = 2
    /\ df[1].index = 1
    /\ df[1].field1 = <<220>>
    /\ df[2].field1 = <<220>>
    /\ df[1].created_at # df[2].created_at
    /\ "maximum" \in shown.widgets
    /\ shown.max_temp_time = Strftime(df[1].created_at)

\* The instant each readable raw timestamp of the model names, in hours
\* since 1970-01-01T00:00Z, and the local time three hours before it.
ExpectedInstant(raw) ==
    CASE raw = <<2024, 1, 1, 0>> -> 473352
      [] raw = <<2024, 1, 1, 1>> -> 473353
      [] raw = <<2024, 3, 1, 2>> -> 474794

ExpectedLocal(raw) ==
    CASE raw = <<2024, 1, 1, 0>> -> <<2023, 12, 31, 21>>
      [] raw = <<2024, 1, 1, 1>> -> <<2023, 12, 31, 22>>
      [] raw = <<2024, 3, 1, 2>> -> <<2024, 2, 29, 23>>

\* C8: every row's timestamp is its record's raw timestamp, read as a UTC
\* instant, moved by -3 hours (2024-01-01T00:00:00Z becomes
\* 2023-12-31 21:00:00); the move being the same for all, differences
\* between timestamps are those of the raw instants. A record whose raw
\* timestamp is the empty string has none to move.
C8_ShiftedByOffset ==
    Succeeded =>
        /\ \A k \in DOMAIN df :
              RawOf(df[k]).created_at # EmptyString =>
                 /\ df[k].created_at # <<>>
                 /\ df[k].created_at[1] = ExpectedInstant(RawOf(df[k]).created_at) - 3
                 /\ Strftime(df[k].created_at) = ExpectedLocal(RawOf(df[k]).created_at)
        /\ \A k, l \in DOMAIN df :
              (df[k].created_at # <<>> /\ df[l].created_at # <<>>) =>
                 df[k].created_at[1] - df[l].created_at[1] =
                    ExpectedInstant(RawOf(df[k]).created_at)
                       - ExpectedInstant(RawOf(df[l]).created_at)

\* C8 happens: the records of 2024-01-01T00:00:00Z and T01:00:00Z stand in
\* the table as 2023-12-31 21:00 and 22:00.
C8_Witness ==
    /\ Succeeded
    /\ Len(df) = 2
    /\ RawOf(df[1]).created_at = <<2024, 1, 1, 0>>
    /\ RawOf(df[2]).created_at = <<2024, 1, 1, 1>>
    /\ Strftime(df[1].created_at) = <<2023, 12, 31, 21>>
    /\ Strftime(df[2].created_at) = <<2023, 12, 31, 22>>

\* C9: rows of the returned table with equal timestamps stand in the order
\* in which the server delivered them.
C9_StableSort ==
    Succeeded =>
        \A i, j \in DOMAIN df :
            (i < j /\ df[i].created_at = df[j].created_at) =>
                df[i].index < df[j].index

\* C10: one rendering of the Home or Analytics page makes exactly one
\* request, whether it succeeds or fails, and none before fetch_data is
\* called; the Setup, Code and Contact pages make none.
C10_OneRequestPerRun ==
    /\ pc \in {"menu", "fetch"} => requests = 0
    /\ pc = "view" => requests = 1
    /\ pc = "done" =>
          requests = (IF selected \in {"Home", "Analytics"} THEN 1 ELSE 0)

\* C10 happens: the Home page rendered after a connection failure, with one
\* request made.
C10_Witness ==
    /\ pc = "done"
    /\ selected = "Home"
    /\ response.kind = "ConnectionError"
    /\ requests = 1

====
